---------------------------- MODULE Spec2Model ----------------------------
(***************************************************************************)
(* Head/body boundary resolution for Lua symbols                           *)
(* (src/vscodeextension/src/outlineproviders/lspextenderlua.ts).           *)
(*                                                                         *)
(* Texts are TLA+ strings.  All offsets, lines and columns are zero-based  *)
(* as in the source; the helpers below translate to the one-based          *)
(* Sequences operators.  Loops that step over uninteresting characters one *)
(* by one are modelled by a jump to the next character the loop reacts to. *)
(***************************************************************************)
EXTENDS Integers, Sequences, FiniteSets, TLC

VARIABLES
    pc,         \* position of the call being modelled
    src,        \* text handed to stripLuaComments / findMatchingParen
    openIdx,    \* offset handed to findMatchingParen
    matchIdx,   \* result of findMatchingParen
    stripped,   \* result of stripLuaComments
    npieces,    \* number of pieces the input text was built from
    luaparse,   \* whether require('luaparse') succeeded
    document,   \* the TextDocument, with what luaparse.parse does with its
                \* text (the parse tree, or an exception)
    docSymbol,  \* the rough symbol: range.start, selectionRange
    truth,      \* what the document generator knows about that symbol
    rangeHead,  \* result
    rangeBody,  \* result
    scan,       \* locals of the body-end scan
    route,      \* which resolver produced the result
    attempts,   \* how often each resolver was entered in this call
    symbolRange, \* argument of provideOutlineForRange
    outline     \* the promise provideOutlineForRange returned

textVars == <<src, openIdx, matchIdx, npieces>>
callVars == <<luaparse, document, docSymbol, truth>>
outlineVars == <<symbolRange, outline>>
vars == <<pc, src, openIdx, matchIdx, stripped, npieces, luaparse, document,
          docSymbol, truth, rangeHead, rangeBody, scan, route, attempts,
          symbolRange, outline>>

(***************************************************************************)
(* JavaScript string primitives                                            *)
(***************************************************************************)
Min(S) == CHOOSE x \in S : \A y \in S : x <= y
Max(S) == CHOOSE x \in S : \A y \in S : x >= y

\* the least element, or -1 for the empty set
MinOrNeg(S) == IF S = {} THEN -1 ELSE Min(S)

Clamp(i, lo, hi) == IF i < lo THEN lo ELSE IF i > hi THEN hi ELSE i

\* s[i]; the empty string stands for `undefined`
At(s, i) == IF i >= 0 /\ i < Len(s) THEN SubSeq(s, i + 1, i + 1) ELSE ""

\* s.substring(a, b) for a <= b
Substring(s, a, b) == SubSeq(s, Clamp(a, 0, Len(s)) + 1, Clamp(b, 0, Len(s)))

\* s.substring(a)
SubstringFrom(s, a) == SubSeq(s, Clamp(a, 0, Len(s)) + 1, Len(s))

\* does `needle` occur in s at offset i
OccursAt(s, needle, i) ==
    /\ i >= 0
    /\ i + Len(needle) <= Len(s)
    /\ SubSeq(s, i + 1, i + Len(needle)) = needle

\* s.indexOf(needle, from), for a non-empty needle
IndexOf(s, needle, from) ==
    MinOrNeg({i \in Clamp(from, 0, Len(s))..(Len(s) - Len(needle)) :
                 OccursAt(s, needle, i)})

\* the offset of the first character of `chars` at or after i, else -1
NextOf(s, chars, i) ==
    MinOrNeg({j \in Clamp(i, 0, Len(s))..(Len(s) - 1) : At(s, j) \in chars})

\* c.repeat(n)
RECURSIVE Repeat(_, _)
Repeat(c, n) == IF n <= 0 THEN "" ELSE c \o Repeat(c, n - 1)

\* number of '=' characters starting at offset j
RECURSIVE EqRun(_, _)
EqRun(s, j) == IF At(s, j) = "=" THEN 1 + EqRun(s, j + 1) ELSE 0

\* the match of /^\[=*\[/ on s.substring(i): its length, or 0 for no match
LongOpenLen(s, i) ==
    IF At(s, i) = "[" /\ At(s, i + 1 + EqRun(s, i + 1)) = "["
    THEN EqRun(s, i + 1) + 2
    ELSE 0

\* ']' + '='.repeat(eq) + ']'
CloseToken(eq) == "]" \o Repeat("=", eq) \o "]"

(***************************************************************************)
(* stripLuaComments                                                        *)
(***************************************************************************)
RECURSIVE StripFrom(_, _)

\* a block comment opened at i whose closing token was searched: endIdx
StripBlock(s, i, endToken, endIdx) ==
    IF endIdx >= 0
    THEN Repeat(" ", endIdx + Len(endToken) - i)
           \o StripFrom(s, endIdx + Len(endToken))
    ELSE Repeat(" ", Len(s) - i)

\* a single-line comment opened at i and running to k
StripLine(s, i, k) == Repeat(" ", k - i) \o StripFrom(s, k)

\* the offset of the line break at or after i, else the length
LineEnd(s, i) == IF NextOf(s, {"\n"}, i) < 0 THEN Len(s) ELSE NextOf(s, {"\n"}, i)

\* "--" at offset i; eq '=' characters follow s[i + 2]
StripComment(s, i, eq) ==
    IF At(s, i + 2) = "[" /\ At(s, i + 3 + eq) = "["
    THEN StripBlock(s, i, CloseToken(eq),
                    IndexOf(s, CloseToken(eq), i + 3 + eq + 1))
    ELSE StripLine(s, i, LineEnd(s, i + 2))

\* the characters up to the next "--" at c are copied
StripCopy(s, i, c) ==
    IF c < 0 THEN SubstringFrom(s, i)
    ELSE Substring(s, i, c) \o StripComment(s, c, EqRun(s, c + 3))

StripFrom(s, i) ==
    IF i >= Len(s) THEN "" ELSE StripCopy(s, i, IndexOf(s, "--", i))

stripLuaComments(s) == StripFrom(s, 0)

(***************************************************************************)
(* findMatchingParen                                                       *)
(***************************************************************************)
RECURSIVE SkipQuoted_NoEscape(_, _, _)
\* SkipQuoted with the escape test dropped: a backslash no longer protects
\* the quote after it
SkipQuoted_NoEscape(s, i, quote) ==
    IF i < Len(s) /\ At(s, i) # quote
    THEN SkipQuoted_NoEscape(s, i + 1, quote)
    ELSE i

RECURSIVE SkipQuoted(_, _, _)
\* the inner loop of the string skip: the offset of the closing quote, or
\* an offset >= length when the string is not closed
SkipQuoted(s, i, quote) ==
    IF i < Len(s) /\ At(s, i) # quote
    THEN IF At(s, i) = "\\" THEN SkipQuoted(s, i + 2, quote)
                            ELSE SkipQuoted(s, i + 1, quote)
    ELSE i

ParenSpecials == {"\"", "'", "[", "(", ")"}

RECURSIVE ParenScan(_, _, _)

\* a long bracket of length m opens at i; its closing token was searched
ParenLong(s, m, endIdx, depth) ==
    IF endIdx < 0 THEN -1 ELSE ParenScan(s, endIdx + m, depth)

\* the loop body at offset i, the next character the loop reacts to
ParenAt(s, i, depth) ==
    IF i < 0 THEN -1
    ELSE IF At(s, i) \in {"\"", "'"}
    THEN ParenScan(s, SkipQuoted(s, i + 1, At(s, i)) + 1, depth)
    ELSE IF LongOpenLen(s, i) > 0
    THEN ParenLong(s, LongOpenLen(s, i),
                   IndexOf(s, CloseToken(LongOpenLen(s, i) - 2),
                           i + LongOpenLen(s, i)),
                   depth)
    ELSE IF At(s, i) = "(" THEN ParenScan(s, i + 1, depth + 1)
    ELSE IF At(s, i) = ")" /\ depth - 1 = 0 THEN i
    ELSE IF At(s, i) = ")" THEN ParenScan(s, i + 1, depth - 1)
    ELSE ParenScan(s, i + 1, depth)

ParenScan(s, i, depth) == ParenAt(s, NextOf(s, ParenSpecials, i), depth)

findMatchingParen(s, open) == ParenScan(s, open, 0)

(***************************************************************************)
(* Inputs of the two pure functions: texts built from a few pieces         *)
(***************************************************************************)
MaxPieces == 4

StripPieces == {"--", "[[", "]]", "[=[", "]=]", "\n", "a", "\""}

ParenPieces == {"(", ")", "\"", "'", "\\\"", "')'", "[[", "]]", "[=[", "]=]"}

InitText ==
    /\ src = ""
    /\ npieces = 0
    /\ openIdx = -1
    /\ matchIdx = -2
    /\ stripped = ""

AppendStripPiece ==
    /\ pc = "build"
    /\ npieces < MaxPieces
    /\ \E p \in StripPieces : src' = src \o p
    /\ npieces' = npieces + 1
    /\ UNCHANGED <<outlineVars, pc, openIdx, matchIdx, stripped, callVars, rangeHead,
                   rangeBody, scan, route, attempts>>

CallStrip ==
    /\ pc = "build"
    /\ stripped' = stripLuaComments(src)
    /\ pc' = "stripped"
    /\ UNCHANGED <<outlineVars, src, openIdx, matchIdx, npieces, callVars, rangeHead,
                   rangeBody, scan, route, attempts>>

AppendParenPiece ==
    /\ pc = "build"
    /\ npieces < MaxPieces
    /\ \E p \in ParenPieces : src' = src \o p
    /\ npieces' = npieces + 1
    /\ UNCHANGED <<outlineVars, pc, openIdx, matchIdx, stripped, callVars, rangeHead,
                   rangeBody, scan, route, attempts>>

CallFindMatchingParen ==
    /\ pc = "build"
    /\ \E o \in 0..(Len(src) - 1) :
          /\ At(src, o) = "("
          /\ openIdx' = o
          /\ matchIdx' = findMatchingParen(src, o)
    /\ pc' = "matched"
    /\ UNCHANGED <<outlineVars, src, stripped, npieces, callVars, rangeHead, rangeBody,
                   scan, route, attempts>>

(***************************************************************************)
(* Documents.  A document is the rendering of a small statement tree, so   *)
(* that the text, the parse tree luaparse returns for it (node ranges) and *)
(* the symbols the upstream provider reports for it are consistent.        *)
(*   raw statement : [k |-> "raw", text]                                   *)
(*   block         : [k, pre, kw, name, rest, body, more, close, flat]     *)
(*     first line  = pre \o kw \o name \o rest                             *)
(*     more        = further clauses <<[h |-> "elseif y then", b |-> ..]>> *)
(*     flat        = written on one line                                   *)
(***************************************************************************)
Raw(t) == [k |-> "raw", text |-> t]

Block(k, pre, kw, name, rest, body, more, close, flat) ==
    [k |-> k, pre |-> pre, kw |-> kw, name |-> name, rest |-> rest,
     body |-> body, more |-> more, close |-> close, flat |-> flat]

NodeType(k) ==
    CASE k = "function" -> "FunctionDeclaration"
      [] k = "if"       -> "IfStatement"
      [] k = "fornum"   -> "ForNumericStatement"
      [] k = "forgen"   -> "ForGenericStatement"
      [] k = "while"    -> "WhileStatement"
      [] OTHER          -> "RepeatStatement"

Sep(flat) == IF flat THEN " " ELSE "\n"
Lead(flat, ind) == IF flat THEN "" ELSE ind
First(n) == n.pre \o n.kw \o n.name \o n.rest

RECURSIVE RenderNode(_, _, _, _)
RECURSIVE RenderBody(_, _, _, _, _)
RECURSIVE RenderClauses(_, _, _, _, _)

\* one statement rendered at offset at, followed by the rest of the block
BodyJoin(one, tl, at) ==
    [text |-> one.text \o tl.text,
     ast |-> one.ast \o tl.ast,
     syms |-> one.syms \o tl.syms,
     last |-> IF tl.last >= 0 THEN tl.last ELSE at + Len(one.lead) + Len(one.body)]

BodyCons(stmts, off, ind, unit, flat, one) ==
    BodyJoin([text |-> Lead(flat, ind) \o one.text \o Sep(flat),
              lead |-> Lead(flat, ind), body |-> one.text,
              ast |-> one.ast, syms |-> one.syms],
             RenderBody(Tail(stmts),
                        off + Len(Lead(flat, ind)) + Len(one.text) + 1,
                        ind, unit, flat),
             off)

\* statements of a block, each on its own line (or separated by blanks);
\* `last` is the end offset of the last token, -1 for an empty block
RenderBody(stmts, off, ind, unit, flat) ==
    IF stmts = <<>> THEN [text |-> "", ast |-> <<>>, syms |-> <<>>, last |-> -1]
    ELSE BodyCons(stmts, off, ind, unit, flat,
                  RenderNode(Head(stmts), off + Len(Lead(flat, ind)), ind, unit))

\* the clause whose header h starts at s, with body b and successors tl
ClauseJoin(h, s, hd, b, tl) ==
    [text |-> hd \o b.text \o tl.text,
     ast |-> b.ast \o tl.ast,
     syms |-> b.syms \o tl.syms,
     clauses |-> <<[s |-> s,
                    e |-> IF b.last >= 0 THEN b.last ELSE s + Len(h),
                    condE |-> IF IndexOf(h, " then", 0) >= 0
                              THEN s + IndexOf(h, " then", 0) ELSE -1]>>
                 \o tl.clauses]

ClauseCons(segs, off, ind, unit, flat, hd, b) ==
    ClauseJoin(Head(segs).h, off + Len(Lead(flat, ind)), hd, b,
               RenderClauses(Tail(segs), off + Len(hd) + Len(b.text),
                             ind, unit, flat))

ClauseHead(segs, off, ind, unit, flat, hd) ==
    ClauseCons(segs, off, ind, unit, flat, hd,
               RenderBody(Head(segs).b, off + Len(hd), ind \o unit, unit, flat))

\* the clauses after the first: elseif ... then / else
RenderClauses(segs, off, ind, unit, flat) ==
    IF segs = <<>>
    THEN [text |-> "", ast |-> <<>>, syms |-> <<>>, clauses |-> <<>>]
    ELSE ClauseHead(segs, off, ind, unit, flat,
                    Lead(flat, ind) \o Head(segs).h \o Sep(flat))

\* the parse-tree nodes of block n: s, e are its range, b its body, cs its
\* further clauses.  `local t = function ...` is an assignment statement
\* whose init expression is the function.
NodeAst(n, off, s, e, b, cs) ==
    (IF n.pre # ""
     THEN <<[type |-> "AssignmentStatement", s |-> off, e |-> e, id |-> -1,
             clauses |-> <<>>, init |-> <<[s |-> s, e |-> e]>>]>>
     ELSE <<>>)
    \o <<[type |-> NodeType(n.k), s |-> s, e |-> e,
          id |-> IF n.k = "function" /\ n.name # "" THEN s + Len(n.kw) ELSE -1,
          clauses |-> IF n.k = "if"
                      THEN <<[s |-> s,
                              e |-> IF b.last >= 0 THEN b.last
                                    ELSE off + Len(First(n)),
                              condE |-> off + Len(First(n)) - 5]>>
                           \o cs.clauses
                      ELSE <<>>,
          init |-> <<>>]>>
    \o b.ast \o cs.ast

\* what the upstream symbol provider reports for block n, and where the
\* block really closes
NodeSym(n, off, s, nameS, closeAt) ==
    [kind |-> n.k,
     named |-> n.name # "",
     nameS |-> nameS,
     nameE |-> IF n.name # "" THEN nameS + Len(n.name)
               ELSE IF n.pre # "" THEN off + 1
               ELSE s + Len(n.kw),
     rangeS |-> off, nodeS |-> s, closeAt |-> closeAt,
     closeLen |-> IF n.k = "repeat" THEN 5 ELSE 3,
     firstEnd |-> off + Len(First(n))]

NodeResult(n, off, ind, b, cs, inner, text) ==
    [text |-> text,
     ast |-> NodeAst(n, off, off + Len(n.pre), off + Len(text), b, cs),
     syms |-> <<NodeSym(n, off, off + Len(n.pre),
                        IF n.name # "" THEN off + Len(n.pre) + Len(n.kw)
                        ELSE IF n.pre # "" THEN off ELSE off + Len(n.pre),
                        IF n.close = "" THEN -1
                        ELSE off + Len(inner) + Len(Lead(n.flat, ind)))>>
              \o b.syms \o cs.syms]

\* a block without its terminator ends with its last statement
NodeInner(n, off, ind, b, cs, inner) ==
    NodeResult(n, off, ind, b, cs, inner,
               IF n.close = "" THEN Substring(inner, 0, Len(inner) - 1)
               ELSE inner \o Lead(n.flat, ind) \o n.close)

NodeWithClauses(n, off, ind, b, cs) ==
    NodeInner(n, off, ind, b, cs,
              First(n) \o Sep(n.flat) \o b.text \o cs.text)

NodeWithBody(n, off, ind, unit, b) ==
    NodeWithClauses(n, off, ind, b,
                    RenderClauses(n.more,
                                  off + Len(First(n)) + 1 + Len(b.text),
                                  ind, unit, n.flat))

\* a statement whose first character is at offset off, on a line indented
\* by ind
RenderNode(n, off, ind, unit) ==
    IF n.k = "raw"
    THEN [text |-> n.text, ast |-> <<>>, syms |-> <<>>]
    ELSE NodeWithBody(n, off, ind, unit,
                      RenderBody(n.body, off + Len(First(n)) + 1,
                                 ind \o unit, unit, n.flat))

\* vscode.TextDocument over a text: its lines and their first offsets
RECURSIVE SplitLines(_, _)
SplitLines(text, from) ==
    IF IndexOf(text, "\n", from) < 0 THEN <<SubstringFrom(text, from)>>
    ELSE <<Substring(text, from, IndexOf(text, "\n", from))>>
            \o SplitLines(text, IndexOf(text, "\n", from) + 1)

RECURSIVE LineStarts(_, _)
LineStarts(lines, from) ==
    IF lines = <<>> THEN <<>>
    ELSE <<from>> \o LineStarts(Tail(lines), from + Len(Head(lines)) + 1)

TextDocumentOf(text, lines) ==
    [text |-> text, lines |-> lines, starts |-> LineStarts(lines, 0)]

TextDocument(text) == TextDocumentOf(text, SplitLines(text, 0))

\* a whole document: top-level statements, no trailing line break
DocOf(r) ==
    [doc |-> TextDocument(Substring(r.text, 0, Len(r.text) - 1)),
     ast |-> r.ast, syms |-> r.syms]

RenderDoc(stmts, unit) == DocOf(RenderBody(stmts, 0, "", unit, FALSE))

(***************************************************************************)
(* vscode.TextDocument and vscode.Range, as far as the resolver uses them  *)
(***************************************************************************)
lineCount(doc) == Len(doc.lines)

\* document.lineAt(ln).text
lineAt(doc, ln) == doc.lines[ln + 1]

\* document.positionAt(offset): <<line, character>>, the offset clamped
LineOfOffset(doc, o) ==
    Max({l \in 0..(Len(doc.lines) - 1) : doc.starts[l + 1] <= o})

PositionIn(doc, o, ln) == <<ln, o - doc.starts[ln + 1]>>

positionAt(doc, offset) ==
    PositionIn(doc, Clamp(offset, 0, Len(doc.text)),
               LineOfOffset(doc, Clamp(offset, 0, Len(doc.text))))

\* document.offsetAt(position), the position clamped to its line
offsetAt(doc, pos) ==
    doc.starts[Clamp(pos[1], 0, Len(doc.lines) - 1) + 1]
      + Clamp(pos[2], 0, Len(doc.lines[Clamp(pos[1], 0, Len(doc.lines) - 1) + 1]))

NoPos == <<-1, -1>>

PosBefore(a, b) == a[1] < b[1] \/ (a[1] = b[1] /\ a[2] < b[2])

\* new vscode.Range(start, end): the ends are ordered
Range(a, b) ==
    IF PosBefore(b, a) THEN [start |-> b, end |-> a]
                       ELSE [start |-> a, end |-> b]

NoRange == [start |-> NoPos, end |-> NoPos]

\* utils.range_new(l1, c1, l2, c2)
range_new(l1, c1, l2, c2) == Range(<<l1, c1>>, <<l2, c2>>)

RECURSIVE FindFromLine(_, _, _, _)
FoundAt(needle, doc, ln, idx) ==
    IF idx >= 0 THEN <<ln, idx>> ELSE FindFromLine(needle, doc, ln + 1, 0)

FindFromLine(needle, doc, ln, from) ==
    IF ln >= lineCount(doc) THEN NoPos
    ELSE FoundAt(needle, doc, ln, IndexOf(lineAt(doc, ln), needle, from))

\* utils.findInDocument(needle, document, startPos): the first occurrence
\* at or after startPos, as <<line, character>>, or NoPos
findInDocument(needle, doc, startPos) ==
    IF startPos = NoPos THEN NoPos
    ELSE FindFromLine(needle, doc, startPos[1], startPos[2])

(***************************************************************************)
(* Regular expressions of the resolver                                     *)
(***************************************************************************)
UpperChars == {"A", "B", "C", "D", "E", "F", "G", "H", "I", "J", "K", "L", "M",
               "N", "O", "P", "Q", "R", "S", "T", "U", "V", "W", "X", "Y", "Z"}
LowerOnly == {"a", "b", "c", "d", "e", "f", "g", "h", "i", "j", "k", "l", "m",
              "n", "o", "p", "q", "r", "s", "t", "u", "v", "w", "x", "y", "z"}
Digits == {"0", "1", "2", "3", "4", "5", "6", "7", "8", "9"}

\* \w
IsWordChar(c) == c \in UpperChars \cup LowerOnly \cup Digits \cup {"_"}

\* \s
IsSpace(c) == c \in {" ", "\t", "\n", "\r"}

LowerChar(c) ==
    IF c \notin UpperChars THEN c
    ELSE At("abcdefghijklmnopqrstuvwxyz",
            IndexOf("ABCDEFGHIJKLMNOPQRSTUVWXYZ", c, 0))

\* s.toLowerCase(), halving the text
RECURSIVE toLowerCase(_)
toLowerCase(s) ==
    IF Len(s) = 0 THEN ""
    ELSE IF Len(s) = 1 THEN LowerChar(s)
    ELSE toLowerCase(SubSeq(s, 1, Len(s) \div 2))
           \o toLowerCase(SubSeq(s, Len(s) \div 2 + 1, Len(s)))

\* the offset of the first character that is not white space, else -1
FirstNonSpace(s) == MinOrNeg({j \in 0..(Len(s) - 1) : ~IsSpace(At(s, j))})

\* the length of the match of /^\s*/
LeadingSpace(s) == IF FirstNonSpace(s) < 0 THEN Len(s) ELSE FirstNonSpace(s)

\* line.match(/^\s*/)[0]
Indent(line) == Substring(line, 0, LeadingSpace(line))

\* s.trim() === ''
IsBlank(s) == \A j \in 0..(Len(s) - 1) : IsSpace(At(s, j))

\* /\bkw\b/i matches s at offset i
WordAt(s, kw, i) ==
    /\ i >= 0
    /\ i + Len(kw) <= Len(s)
    /\ toLowerCase(SubSeq(s, i + 1, i + Len(kw))) = kw
    /\ ~IsWordChar(At(s, i - 1))
    /\ ~IsWordChar(At(s, i + Len(kw)))

\* regex.exec(s) for /\bkw\b/gi with the given lastIndex: the index of the
\* match (-1 for null) and the new lastIndex
ExecResult(kw, index) ==
    IF index < 0 THEN [index |-> -1, lastIndex |-> 0]
    ELSE [index |-> index, lastIndex |-> index + Len(kw)]

Exec(kw, s, lastIndex) ==
    ExecResult(kw, MinOrNeg({i \in lastIndex..(Len(s) - Len(kw)) :
                                WordAt(s, kw, i)}))

\* the length of the blank run that ends s
RECURSIVE TrailingSpace(_, _)
TrailingSpace(s, n) ==
    IF n < Len(s) /\ IsSpace(At(s, Len(s) - 1 - n))
    THEN TrailingSpace(s, n + 1) ELSE n

\* /\belse\s*$/i.test(s)
EndsWithElse(s) ==
    WordAt(Substring(s, 0, Len(s) - TrailingSpace(s, 0)), "else",
           Len(s) - TrailingSpace(s, 0) - 4)

\* textLine.match(/--\[(=*)\[/): the index of the match, or -1
BlockStartIndex(line) ==
    MinOrNeg({i \in 0..(Len(line) - 4) :
                 OccursAt(line, "--", i) /\ LongOpenLen(line, i + 2) > 0})

(***************************************************************************)
(* Heuristic route: head end                                               *)
(***************************************************************************)
RECURSIVE ParenEndScan(_, _, _, _, _)

\* a long bracket was opened; its closing token was searched from the
\* loop's line on
ParenEndLong(doc, tl, close, found, depth) ==
    IF found = NoPos THEN NoPos
    ELSE ParenEndScan(doc, found[1], tl, found[2] + Len(close), depth)

\* the loop body at column i of lineText, the next character it reacts to
ParenEndAt(doc, ln, tl, lineText, i, depth) ==
    IF i < 0
    THEN IF ln + 1 >= lineCount(doc) THEN NoPos
         ELSE ParenEndScan(doc, ln + 1, ln + 1, 0, depth)
    ELSE IF At(lineText, i) \in {"\"", "'"}
    THEN ParenEndScan(doc, ln, tl,
                      SkipQuoted(lineText, i + 1, At(lineText, i)) + 1, depth)
    ELSE IF LongOpenLen(lineText, i) > 0
    THEN ParenEndLong(doc, tl, CloseToken(LongOpenLen(lineText, i) - 2),
                      FindFromLine(CloseToken(LongOpenLen(lineText, i) - 2),
                                   doc, ln, i + LongOpenLen(lineText, i)),
                      depth)
    ELSE IF At(lineText, i) = "(" THEN ParenEndScan(doc, ln, tl, i + 1, depth + 1)
    ELSE IF At(lineText, i) = ")" /\ depth - 1 <= 0 THEN <<ln, i>>
    ELSE IF At(lineText, i) = ")" THEN ParenEndScan(doc, ln, tl, i + 1, depth - 1)
    ELSE ParenEndScan(doc, ln, tl, i + 1, depth)

\* the matching-parenthesis scan of the preferred head search.  ln is the
\* loop's line number; tl is the line whose text `lineText` still holds
\* (the two differ after a long bracket that closes on a later line)
ParenEndScan(doc, ln, tl, i, depth) ==
    ParenEndAt(doc, ln, tl, lineAt(doc, tl),
               NextOf(lineAt(doc, tl), ParenSpecials, i), depth)

RECURSIVE ParenEndSimple(_, _, _, _)

ParenEndSimpleAt(doc, ln, lineText, i, depth) ==
    IF i < 0
    THEN IF ln + 1 >= lineCount(doc) THEN NoPos
         ELSE ParenEndSimple(doc, ln + 1, 0, depth)
    ELSE IF At(lineText, i) = "(" THEN ParenEndSimple(doc, ln, i + 1, depth + 1)
    ELSE IF depth - 1 <= 0 THEN <<ln, i>>
    ELSE ParenEndSimple(doc, ln, i + 1, depth - 1)

\* the scan of the two fallback searches: no literal is skipped
ParenEndSimple(doc, ln, i, depth) ==
    ParenEndSimpleAt(doc, ln, lineAt(doc, ln),
                     NextOf(lineAt(doc, ln), {"(", ")"}, i), depth)

\* a || b on positions
OrElse(a, b) == IF a # NoPos THEN a ELSE b

ParenEndFrom(doc, parenLoc) ==
    IF parenLoc = NoPos THEN NoPos
    ELSE ParenEndScan(doc, parenLoc[1], parenLoc[1], parenLoc[2], 0)

ParenLocOf(doc, parenIdx) ==
    IF parenIdx >= 0 THEN positionAt(doc, parenIdx) ELSE NoPos

\* step 1: '(' searched in the stripped text from the symbol's start, its
\* ')' matched on the raw lines
HeadEndParen(doc, sym) ==
    ParenEndFrom(doc,
        ParenLocOf(doc, IndexOf(stripLuaComments(doc.text), "(",
                                offsetAt(doc, sym.range.start))))

DoOrParen(headEnd, doLoc, repeatLoc) ==
    IF headEnd = NoPos
    THEN IF doLoc # NoPos THEN doLoc
         ELSE IF repeatLoc # NoPos THEN repeatLoc ELSE NoPos
    ELSE IF doLoc # NoPos /\ PosBefore(headEnd, doLoc) THEN doLoc
         ELSE headEnd

\* step 1, continued: a 'do' or 'repeat' after the name may end the head
HeadEndDo(doc, sym, headEnd) ==
    DoOrParen(headEnd,
              OrElse(findInDocument(" do", doc, sym.selectionRange.end),
                     findInDocument("do", doc, sym.selectionRange.end)),
              findInDocument("repeat", doc, sym.selectionRange.end))

ParenEndSimpleFrom(doc, parenLoc) ==
    IF parenLoc = NoPos THEN NoPos
    ELSE ParenEndSimple(doc, parenLoc[1], parenLoc[2], 0)

\* steps 2 and 3: '(' from the name start; '(' after a 'function' keyword
HeadEndFallback(doc, sym) ==
    OrElse(ParenEndSimpleFrom(doc,
               findInDocument("(", doc, sym.selectionRange.start)),
           ParenEndSimpleFrom(doc,
               findInDocument("(", doc,
                   findInDocument("function", doc, sym.selectionRange.start))))

DoOrName(sym, doIdx, repeatIdx) ==
    IF doIdx >= 0 THEN <<sym.selectionRange.start[1], doIdx + 1>>
    ELSE IF repeatIdx >= 0 THEN <<sym.selectionRange.start[1], repeatIdx>>
    ELSE sym.selectionRange.end

\* step 4: ' do' or 'repeat' on the head line, else the end of the name
HeadEndLast(doc, sym) ==
    DoOrName(sym,
             IndexOf(lineAt(doc, sym.selectionRange.start[1]), " do",
                     sym.selectionRange.start[2]),
             IndexOf(lineAt(doc, sym.selectionRange.start[1]), "repeat",
                     sym.selectionRange.start[2]))

HeadEnd(doc, sym) ==
    OrElse(OrElse(HeadEndDo(doc, sym, HeadEndParen(doc, sym)),
                  HeadEndFallback(doc, sym)),
           HeadEndLast(doc, sym))

HeadRange(head_start, headEnd) ==
    range_new(head_start[1], head_start[2], headEnd[1], headEnd[2])

HeuristicHead(doc, sym) ==
    HeadRange(sym.selectionRange.start, HeadEnd(doc, sym))

(***************************************************************************)
(* Heuristic route: body start                                             *)
(***************************************************************************)
\* a ')' at the head end is stepped over
SkipCloseParen(doc, line, char) ==
    IF Len(lineAt(doc, line)) > char /\ At(lineAt(doc, line), char) = ")"
    THEN char + 1 ELSE char

BodyStartAt(doc, body_start_line, body_start_char) ==
    IF IsBlank(SubstringFrom(lineAt(doc, body_start_line), body_start_char))
    THEN <<body_start_line + 1, 0>>
    ELSE <<body_start_line, body_start_char>>

BodyStart(doc, head) ==
    BodyStartAt(doc, head.end[1],
                SkipCloseParen(doc, head.end[1],
                               IF head.end[2] < 0 THEN 0 ELSE head.end[2]))

(***************************************************************************)
(* Heuristic route: body-end scan (the endPos closure).  The scan state is *)
(* a record of the closure's locals:                                       *)
(*   phase  "line"   at the head of the for loop over lines                *)
(*          "token"  at the head of the while (true) token loop            *)
(*          "return" endPos found     "null" the lines are exhausted       *)
(***************************************************************************)
Keywords == {"function", "do", "repeat", "if", "for", "while", "end", "until"}
Openers == {"function", "do", "repeat", "for", "while"}
\* the regexes whose lastIndex is reset before each line's token loop
ResetPerLine == {"function", "do", "repeat", "end", "until"}

NoPick == [type |-> "", index |-> -1]

ScanInit(doc, head, bodyStart) ==
    [phase |-> "line",
     ln |-> bodyStart[1],
     depth |-> 0,
     inBlockComment |-> FALSE,
     blockClosePattern |-> "",
     sub |-> "",
     searchFrom |-> 0,
     lastIndex |-> [k \in Keywords |-> 0],
     pick |-> NoPick,
     endPos |-> NoPos,
     body_start_line |-> bodyStart[1],
     body_start_char |-> bodyStart[2],
     startIndent |-> Indent(lineAt(doc, head.start[1]))]

CutOpenComment(textLine, pattern, closeIdx) ==
    IF closeIdx >= 0
    THEN <<SubstringFrom(textLine, closeIdx + Len(pattern)), FALSE>>
    ELSE <<textLine, TRUE>>

\* the line after the pending block comment is cut off: <<text, still inside>>
AfterOpenComment(textLine, st) ==
    IF ~st.inBlockComment THEN <<textLine, FALSE>>
    ELSE CutOpenComment(textLine, st.blockClosePattern,
                        IndexOf(textLine, st.blockClosePattern, 0))

CutBlockComment(textLine, startIdx, close, closeIdx) ==
    IF closeIdx >= 0
    THEN <<Substring(textLine, 0, startIdx)
             \o SubstringFrom(textLine, closeIdx + Len(close)), FALSE, "">>
    ELSE <<Substring(textLine, 0, startIdx), TRUE, close>>

\* a block comment opens at startIdx with a token of mlen characters
BlockCommentAt(textLine, startIdx, mlen) ==
    IF startIdx < 0 THEN <<textLine, FALSE, "">>
    ELSE CutBlockComment(textLine, startIdx, CloseToken(mlen - 4),
                         IndexOf(textLine, CloseToken(mlen - 4), startIdx + mlen))

\* the first block comment starting on the line is removed:
\* <<text, block comment left open, its closing token>>
RemoveBlockComment(textLine) ==
    BlockCommentAt(textLine, BlockStartIndex(textLine),
                   2 + LongOpenLen(textLine, BlockStartIndex(textLine) + 2))

\* the single-line comment is cut off
RemoveLineComment(textLine) ==
    IF IndexOf(textLine, "--", 0) >= 0
    THEN Substring(textLine, 0, IndexOf(textLine, "--", 0))
    ELSE textLine

\* the line is cleaned: b is the result of the block comment removal, sub
\* the text the token loop searches
LineSearch(st, b, searchFrom, sub) ==
    IF Len(sub) = 0
    THEN [st EXCEPT !.ln = st.ln + 1,
                    !.inBlockComment = b[2],
                    !.blockClosePattern = b[3]]
    ELSE [st EXCEPT !.phase = "token",
                    !.inBlockComment = b[2],
                    !.blockClosePattern = b[3],
                    !.sub = sub,
                    !.searchFrom = searchFrom,
                    !.lastIndex = [k \in Keywords |->
                                      IF k \in ResetPerLine THEN 0
                                      ELSE st.lastIndex[k]]]

LineClean(st, b, searchFrom) ==
    LineSearch(st, b, searchFrom,
               SubstringFrom(RemoveLineComment(b[1]), searchFrom))

LineOpen(st, a) ==
    IF a[2] THEN [st EXCEPT !.ln = st.ln + 1]
    ELSE LineClean(st, RemoveBlockComment(a[1]),
                   IF st.ln = st.body_start_line THEN st.body_start_char ELSE 0)

\* one iteration of the for loop up to the token loop
LineStep(doc, st) == LineOpen(st, AfterOpenComment(lineAt(doc, st.ln), st))

\* IsElseIf with the test for a preceding 'else' dropped
IsElseIf_Never(beforeText) == FALSE

\* an 'if' directly after 'else' does not open a block
IsElseIf(beforeText) == EndsWithElse(beforeText)

\* IndentMatches with the indentation comparison dropped
IndentMatches_Any(line, startIndent) == TRUE

\* a terminator at depth zero is taken only on a line indented like the head
IndentMatches(line, startIndent) == Indent(line) = startIndent

PickAmong(m, cands) ==
    IF cands = {} THEN NoPick
    ELSE [type |-> CHOOSE k \in cands : \A j \in cands : m[k].index <= m[j].index,
          index |-> Min({m[k].index : k \in cands})]

\* the candidate with the smallest index
Pick(m) == PickAmong(m, {k \in Keywords : m[k].index >= 0})

\* TokenBranch without the break: the token loop goes on when no regex
\* matched
TokenBranch_NoBreak(raw, st, st1) ==
    IF st1.pick = NoPick
    THEN st1
    ELSE IF st1.pick.type \in Openers
    THEN [st1 EXCEPT !.depth = st.depth + 1]
    ELSE IF st1.pick.type = "if"
    THEN IF IsElseIf(Substring(raw, 0, st.searchFrom + st1.pick.index))
         THEN st1
         ELSE [st1 EXCEPT !.depth = st.depth + 1]
    ELSE IF st.depth = 0
    THEN IF IndentMatches(raw, st.startIndent)
         THEN [st1 EXCEPT !.phase = "return",
                          !.endPos = <<st.ln, st.searchFrom + st1.pick.index>>]
         ELSE st1
    ELSE [st1 EXCEPT !.depth = st.depth - 1]

\* the branch taken for the picked candidate; st1 holds the regexes'
\* new lastIndex values
TokenBranch(raw, st, st1) ==
    IF st1.pick = NoPick
    THEN [st1 EXCEPT !.phase = "line", !.ln = st.ln + 1]
    ELSE IF st1.pick.type \in Openers
    THEN [st1 EXCEPT !.depth = st.depth + 1]
    ELSE IF st1.pick.type = "if"
    THEN IF IsElseIf(Substring(raw, 0, st.searchFrom + st1.pick.index))
         THEN st1
         ELSE [st1 EXCEPT !.depth = st.depth + 1]
    ELSE IF st.depth = 0
    THEN IF IndentMatches(raw, st.startIndent)
         THEN [st1 EXCEPT !.phase = "return",
                          !.endPos = <<st.ln, st.searchFrom + st1.pick.index>>]
         ELSE st1
    ELSE [st1 EXCEPT !.depth = st.depth - 1]

TokenMatches(raw, st, m) ==
    TokenBranch(raw, st,
                [st EXCEPT !.lastIndex = [k \in Keywords |-> m[k].lastIndex],
                           !.pick = Pick(m)])

\* one iteration of the token loop: all eight regexes are executed
TokenStep(doc, st) ==
    TokenMatches(lineAt(doc, st.ln), st,
                 [k \in Keywords |-> Exec(k, st.sub, st.lastIndex[k])])

ScanStep(doc, st) ==
    IF st.phase = "token" THEN TokenStep(doc, st)
    ELSE IF st.ln < lineCount(doc) THEN LineStep(doc, st)
    ELSE [st EXCEPT !.phase = "null"]

RECURSIVE RunScan(_, _)
\* the whole closure: the state in which it returns
RunScan(doc, st) ==
    IF st.phase \in {"return", "null"} THEN st
    ELSE RunScan(doc, ScanStep(doc, st))

END_KEYWORD == "end"

\* the body range built from endPos
HeuristicBody(st) ==
    range_new(st.body_start_line, st.body_start_char,
              st.endPos[1], st.endPos[2] + Len(END_KEYWORD))

ResolveResult(head, st) ==
    IF st.phase = "null"
    THEN [ok |-> FALSE, rangeHead |-> NoRange, rangeBody |-> NoRange]
    ELSE [ok |-> TRUE, rangeHead |-> head, rangeBody |-> HeuristicBody(st)]

ResolveFromHead(doc, head) ==
    ResolveResult(head, RunScan(doc, ScanInit(doc, head, BodyStart(doc, head))))

\* the heuristic route as a whole: what the call returns or that it throws
HeuristicResolve(doc, sym) == ResolveFromHead(doc, HeuristicHead(doc, sym))

(***************************************************************************)
(* Structural route                                                        *)
(***************************************************************************)
NoNode == [type |-> "", s |-> -1, e |-> -1, id |-> -1, clauses |-> <<>>,
           init |-> <<>>]

\* the node kinds visit() records
VisitTypes == {"FunctionDeclaration", "FunctionStatement", "ForNumericStatement",
               "ForGenericStatement", "IfStatement", "RepeatStatement"}

LastRecorded(tree, hits) == IF hits = {} THEN NoNode ELSE tree[Max(hits)]

\* visit(ast): the nodes are held in visiting order, and each recorded node
\* overwrites foundNode
visit(tree, selOffset) ==
    LastRecorded(tree, {i \in 1..Len(tree) :
                           /\ tree[i].s <= selOffset
                           /\ selOffset <= tree[i].e
                           /\ tree[i].type \in VisitTypes})

FunctionKeywordLen == 8
RepeatKeywordLen == 6
DefaultHeadLen == 10
ShortHeadLen == 4
ThenKeywordLen == 4

CloseOr(closeIdx, otherwise) == IF closeIdx >= 0 THEN closeIdx + 1 ELSE otherwise

\* FunctionDeclaration / FunctionStatement
FunctionOffsets(text, node, headStartIdx, open) ==
    IF open >= 0 /\ open < node.e
    THEN <<headStartIdx, CloseOr(findMatchingParen(text, open), open + 1), node.e>>
    ELSE <<headStartIdx, node.s + FunctionKeywordLen, node.e>>

\* AssignmentStatement whose first init expression is a function
AssignmentOffsets(text, node, funcStart, open) ==
    <<node.s,
      IF open >= 0
      THEN CloseOr(findMatchingParen(text, open), funcStart + FunctionKeywordLen)
      ELSE funcStart + FunctionKeywordLen,
      node.init[1].e>>

FirstClause(node, hits) ==
    IF hits = {} THEN node.clauses[1] ELSE node.clauses[Min(hits)]

\* the clause of an IfStatement that holds the selection, else the first
ClauseOf(node, selOffset) ==
    FirstClause(node, {i \in 1..Len(node.clauses) :
                          /\ node.clauses[i].s <= selOffset
                          /\ selOffset <= node.clauses[i].e})

ClauseOffsets(node, clause, thenIdx) ==
    IF thenIdx >= 0 /\ thenIdx < node.e
    THEN <<clause.s, thenIdx + ThenKeywordLen, node.e>>
    ELSE <<clause.s,
           IF clause.condE >= 0 THEN clause.condE ELSE clause.e,
           node.e>>

\* IfStatement
IfOffsets(lowerSrc, node, clause) ==
    ClauseOffsets(node, clause, IndexOf(lowerSrc, "then", clause.s))

\* ForNumericStatement / ForGenericStatement / WhileStatement
LoopOffsets(node, doIdx) ==
    IF doIdx >= 0 /\ doIdx < node.e
    THEN <<node.s, doIdx + 1, node.e>>
    ELSE <<node.s, node.s + ShortHeadLen, node.e>>

\* the offsets <<headStartIdx, headEndIdx, bodyEndIdx>> chosen for foundNode
\* (bodyStartIdx is assigned headEndIdx in every branch)
NodeOffsets(text, node, selOffset) ==
    IF node.type \in {"FunctionDeclaration", "FunctionStatement"}
    THEN FunctionOffsets(text, node,
                         IF node.id >= 0 THEN node.id ELSE node.s,
                         IndexOf(text, "(", IF node.id >= 0 THEN node.id ELSE node.s))
    ELSE IF node.type = "AssignmentStatement" /\ Len(node.init) > 0
    THEN AssignmentOffsets(text, node, node.init[1].s,
                           IndexOf(text, "(", node.init[1].s))
    ELSE IF node.type = "IfStatement"
    THEN IfOffsets(toLowerCase(text), node, ClauseOf(node, selOffset))
    ELSE IF node.type \in {"ForNumericStatement", "ForGenericStatement",
                           "WhileStatement"}
    THEN LoopOffsets(node, IndexOf(toLowerCase(text), " do", node.s))
    ELSE IF node.type = "RepeatStatement"
    THEN <<node.s, node.s + RepeatKeywordLen, node.e>>
    ELSE <<node.s,
           IF node.s + DefaultHeadLen < node.e THEN node.s + DefaultHeadLen
           ELSE node.e,
           node.e>>

RangesAt(doc, o) ==
    [rangeHead |-> Range(positionAt(doc, o[1]), positionAt(doc, o[2])),
     rangeBody |-> Range(positionAt(doc, o[2]), positionAt(doc, o[3]))]

\* the ranges the structural route returns for foundNode
StructuralRanges(doc, node, selOffset) ==
    RangesAt(doc, NodeOffsets(doc.text, node, selOffset))

(***************************************************************************)
(* The documents and symbols the call is run on                            *)
(***************************************************************************)
MaxNest == 2

Fn(pre, kw, name, rest, body, flat) ==
    Block("function", pre, kw, name, rest, body, <<>>, "end", flat)

If(cond, body, more, flat) ==
    Block("if", "", "if", "", " " \o cond \o " then", body, more, "end", flat)

Kinds == {"function", "if", "fornum", "while", "repeat"}

MkBlock(kind, body, flat) ==
    CASE kind = "function" -> Fn("", "function ", "f", "()", body, flat)
      [] kind = "if"       -> If("x", body, <<>>, flat)
      [] kind = "fornum"   ->
            Block("fornum", "", "for", "", " i=1,2 do", body, <<>>, "end", flat)
      [] kind = "while"    ->
            Block("while", "", "while", "", " x do", body, <<>>, "end", flat)
      [] OTHER             ->
            Block("repeat", "", "repeat", "", "", body, <<>>, "until x", flat)

RECURSIVE ChainTree(_, _, _)
\* kinds[level] containing kinds[level + 1] ... containing the call g();
\* the levels from flatFrom on are written on one line
ChainTree(kinds, level, flatFrom) ==
    IF level > Len(kinds) THEN Raw("g()")
    ELSE MkBlock(kinds[level], <<ChainTree(kinds, level + 1, flatFrom)>>,
                 level >= flatFrom)

NestedTrees ==
    UNION {{<<ChainTree(ks, 1, f)>> : f \in {n, n + 1}, ks \in [1..n -> Kinds]} :
           n \in 1..MaxNest}

Plain(stmts) == [stmts |-> stmts, alt |-> stmts, altKind |-> "none",
                 parses |-> TRUE]

\* two trees that differ only inside a string literal or inside a comment
Pair(stmts, alt, altKind) ==
    [stmts |-> stmts, alt |-> alt, altKind |-> altKind, parses |-> TRUE]

FnWithBody(b) == <<Fn("", "function ", "f", "()", <<b>>, FALSE)>>

SampleTrees == {
    Plain(<<Fn("", "function ", "foo", "(a,b)", <<Raw("return a+b")>>, FALSE)>>),
    Plain(<<Fn("", "local function ", "bar", "(x)", <<Raw("print(x)")>>, FALSE)>>),
    Plain(<<Fn("t = ", "function", "", "(x,y)", <<Raw("return x*y")>>, FALSE)>>),
    Plain(<<If("x", <<Raw("print(1)")>>,
               <<[h |-> "elseif y then", b |-> <<Raw("print(2)")>>]>>, FALSE)>>),
    Plain(<<If("a", <<Raw("p = 1")>>,
               <<[h |-> "elseif b then", b |-> <<Raw("p = 2")>>],
                 [h |-> "else", b |-> <<Raw("p = 3")>>]>>, FALSE)>>),
    Plain(<<If("a", <<Raw("p = 1")>>,
               <<[h |-> "elseif b then", b |-> <<Raw("p = 2")>>],
                 [h |-> "else", b |-> <<Raw("p = 3")>>]>>, TRUE)>>),
    Plain(<<If("a", <<Raw("p = 1")>>,
               <<[h |-> "else if b then", b |-> <<Raw("p = 2"), Raw("end")>>]>>,
               FALSE)>>),
    Plain(<<Block("repeat", "", "repeat", "", "", <<Raw("x = x - 1")>>, <<>>,
                  "until x<=0", FALSE)>>),
    Plain(FnWithBody(If("x", <<MkBlock("fornum", <<Raw("print(i)")>>, FALSE)>>,
                        <<>>, FALSE))),
    Plain(<<ChainTree(<<"function", "if">>, 1, 1)>>),
    [Plain(<<Block("function", "", "function ", "f", "()", <<Raw("print(1)")>>,
                   <<>>, "", FALSE)>>) EXCEPT !.parses = FALSE],
    Pair(FnWithBody(Raw("local s = \"function\"")),
         FnWithBody(Raw("local s = \"xxxxxxxx\"")), "string"),
    Pair(FnWithBody(Raw("local s = [[ end ]]")),
         FnWithBody(Raw("local s = [[ xxx ]]")), "string"),
    Pair(FnWithBody(Raw("g(\"a)\")")),
         FnWithBody(Raw("g(\"ab\")")), "string"),
    Pair(<<Fn("", "function ", "f", "(a) -- do it", <<Raw("return a")>>, FALSE)>>,
         <<Fn("", "function ", "f", "(a) -- xx it", <<Raw("return a")>>, FALSE)>>,
         "comment"),
    Pair(<<Fn("", "function ", "f", "(a, -- first)\n  b)", <<Raw("return a")>>, FALSE)>>,
         <<Fn("", "function ", "f", "(a, -- firstx\n  b)", <<Raw("return a")>>, FALSE)>>,
         "comment"),
    Pair(FnWithBody(Raw("g() -- end")),
         FnWithBody(Raw("g() -- xxx")), "comment"),
    Pair(FnWithBody(Raw("--[[ end ]] g()")),
         FnWithBody(Raw("--[[ xxx ]] g()")), "comment")
  }

Trees == SampleTrees \cup {Plain(t) : t \in NestedTrees}

Units == {"", "  "}

\* the provider's symbol for a construct the generator rendered
SymbolOf(doc, sym) ==
    [range |-> [start |-> positionAt(doc, sym.rangeS)],
     selectionRange |-> [start |-> positionAt(doc, sym.nameS),
                         end |-> positionAt(doc, sym.nameE)]]

\* the document with what luaparse.parse(document.getText()) does
Parsed(d, parses) ==
    [text |-> d.doc.text, lines |-> d.doc.lines, starts |-> d.doc.starts,
     tree |-> d.ast, parses |-> parses]

EmptyDocument == Parsed([doc |-> TextDocument(""), ast |-> <<>>], FALSE)

\* the promise of an async function is pending, fulfilled or rejected;
\* "none" stands for no call made
NoOutline == [state |-> "none", reason |-> "", value |-> <<>>,
              symbolsInRange |-> {}]

InitIdle ==
    /\ rangeHead = NoRange
    /\ rangeBody = NoRange
    /\ scan = ScanInit(EmptyDocument, Range(<<0, 0>>, <<0, 0>>), <<0, 0>>)
    /\ route = "none"
    /\ attempts = [structural |-> 0, heuristic |-> 0]

Init ==
    /\ pc = "start"
    /\ InitText
    /\ InitIdle
    /\ symbolRange = NoRange
    /\ outline = NoOutline
    /\ luaparse \in BOOLEAN
    /\ \E t \in Trees, unit \in Units :
         \E d \in {RenderDoc(t.stmts, unit)}, a \in {RenderDoc(t.alt, unit)} :
         \E i \in 1..Len(d.syms) :
            /\ document = Parsed(d, t.parses)
            /\ docSymbol = SymbolOf(d.doc, d.syms[i])
            /\ truth = [sym |-> d.syms[i], alt |-> a.doc, altKind |-> t.altKind]

(***************************************************************************)
(* getLanguageSpecificSymbolInformation                                    *)
(***************************************************************************)
selOffset == offsetAt(document, docSymbol.selectionRange.start)

foundNode == visit(document.tree, selOffset)

\* if (luaparse) { try { ... : the structural route is entered
TryStructural ==
    /\ pc = "start"
    /\ luaparse
    /\ pc' = "structural"
    /\ attempts' = [attempts EXCEPT !.structural = @ + 1]
    /\ UNCHANGED <<outlineVars, textVars, callVars, stripped, rangeHead, rangeBody, scan, route>>

\* luaparse is null: the heuristic scan is all there is
ParserUnavailable ==
    /\ pc = "start"
    /\ ~luaparse
    /\ pc' = "heuristic"
    /\ UNCHANGED <<outlineVars, textVars, callVars, stripped, rangeHead, rangeBody, scan,
                   route, attempts>>

\* luaparse.parse throws; the catch falls through to the heuristics
ParseFailed ==
    /\ pc = "structural"
    /\ ~document.parses
    /\ pc' = "heuristic"
    /\ UNCHANGED <<outlineVars, textVars, callVars, stripped, rangeHead, rangeBody, scan,
                   route, attempts>>

\* NodeNotFound with the failure surfaced to the caller instead of recovered
NodeNotFound_Surfaced ==
    /\ pc = "structural"
    /\ document.parses
    /\ foundNode = NoNode
    /\ pc' = "failed"
    /\ UNCHANGED <<outlineVars, textVars, callVars, stripped, rangeHead, rangeBody, scan,
                   route, attempts>>

\* visit() recorded no node
NodeNotFound ==
    /\ pc = "structural"
    /\ document.parses
    /\ foundNode = NoNode
    /\ pc' = "heuristic"
    /\ UNCHANGED <<outlineVars, textVars, callVars, stripped, rangeHead, rangeBody, scan,
                   route, attempts>>

\* return [rangeHead, rangeBody, []] from the parse tree
StructuralReturn ==
    /\ pc = "structural"
    /\ document.parses
    /\ foundNode # NoNode
    /\ \E r \in {StructuralRanges(document, foundNode, selOffset)} :
          rangeHead' = r.rangeHead /\ rangeBody' = r.rangeBody
    /\ route' = "structural"
    /\ pc' = "done"
    /\ UNCHANGED <<outlineVars, textVars, callVars, stripped, scan, attempts>>

\* the head range and the body start of the heuristic route
FindHead ==
    /\ pc = "heuristic"
    /\ stripped' = stripLuaComments(document.text)
    /\ \E head \in {HeuristicHead(document, docSymbol)} :
          /\ rangeHead' = head
          /\ scan' = ScanInit(document, head, BodyStart(document, head))
    /\ attempts' = [attempts EXCEPT !.heuristic = @ + 1]
    /\ pc' = "scan"
    /\ UNCHANGED <<outlineVars, textVars, callVars, rangeBody, route>>

\* the for loop takes the next line up to its token loop
ScanLine ==
    /\ pc = "scan"
    /\ scan.phase = "line"
    /\ scan.ln < lineCount(document)
    /\ scan' = LineStep(document, scan)
    /\ UNCHANGED <<outlineVars, pc, textVars, callVars, stripped, rangeHead, rangeBody, route,
                   attempts>>

\* one iteration of while (true)
ScanToken ==
    /\ pc = "scan"
    /\ scan.phase = "token"
    /\ scan' = TokenStep(document, scan)
    /\ UNCHANGED <<outlineVars, pc, textVars, callVars, stripped, rangeHead, rangeBody, route,
                   attempts>>

\* the lines are exhausted: endPos is null and the call throws
ScanFail ==
    /\ pc = "scan"
    /\ scan.phase = "line"
    /\ scan.ln >= lineCount(document)
    /\ scan' = [scan EXCEPT !.phase = "null"]
    /\ rangeHead' = NoRange
    /\ pc' = "failed"
    /\ UNCHANGED <<outlineVars, textVars, callVars, stripped, rangeBody, route, attempts>>

\* endPos found: return [rangeHead, rangeBody, attributes]
HeuristicReturn ==
    /\ pc = "scan"
    /\ scan.phase = "return"
    /\ rangeBody' = HeuristicBody(scan)
    /\ route' = "heuristic"
    /\ pc' = "done"
    /\ UNCHANGED <<outlineVars, textVars, callVars, stripped, rangeHead, scan, attempts>>

Next ==
    \/ TryStructural
    \/ ParserUnavailable
    \/ ParseFailed
    \/ NodeNotFound
    \/ StructuralReturn
    \/ FindHead
    \/ ScanLine
    \/ ScanToken
    \/ ScanFail
    \/ HeuristicReturn

Spec == Init /\ [][Next]_vars

\* the call is a sequential execution that returns or throws
Running == pc \in {"start", "structural", "heuristic", "scan"}

\* the call keeps executing its statements as long as it runs: weak
\* fairness of Next, with ENABLED <<Next>>_vars written out as Running
FairSpec == Spec /\ ([]<>(~Running) \/ []<><<Next>>_vars)

(***************************************************************************)
(* The two text functions on their own inputs                              *)
(***************************************************************************)
InitNoCall ==
    /\ InitIdle
    /\ symbolRange = NoRange
    /\ outline = NoOutline
    /\ luaparse = FALSE
    /\ document = EmptyDocument
    /\ docSymbol = SymbolOf(EmptyDocument, [rangeS |-> 0, nameS |-> 0, nameE |-> 0])
    /\ truth = [sym |-> <<>>, alt |-> EmptyDocument, altKind |-> "none"]

InitStrip == pc = "build" /\ InitText /\ InitNoCall
NextStrip == AppendStripPiece \/ CallStrip
SpecStrip == InitStrip /\ [][NextStrip]_vars

InitParen == pc = "build" /\ InitText /\ InitNoCall
NextParen == AppendParenPiece \/ CallFindMatchingParen
SpecParen == InitParen /\ [][NextParen]_vars

(***************************************************************************)
(* provideOutlineForRange                                                  *)
(***************************************************************************)
NOT_IMPLEMENTED == "outlines for ranges are not yet implemented"

\* OutlineUtils.getDocumentSymbolsInRange(document.uri, symbolRange): the
\* symbols of the document that start inside the range
getDocumentSymbolsInRange(symbols, range) ==
    {sym \in symbols : /\ ~PosBefore(sym.range.start, range.start)
                        /\ ~PosBefore(range.end, sym.range.start)}

\* provideOutlineForRange with the commented-out `return ret` in place of
\* the throw
provideOutlineForRange_ReturnsRet ==
    /\ pc = "outline"
    /\ \E ret \in {<<>>},
          symbolsInRange \in {getDocumentSymbolsInRange({docSymbol}, symbolRange)} :
          outline' = [state |-> "fulfilled", reason |-> "", value |-> ret,
                      symbolsInRange |-> symbolsInRange]
    /\ pc' = "settled"
    /\ UNCHANGED <<textVars, callVars, stripped, rangeHead, rangeBody, scan,
                   route, attempts, symbolRange>>

\* the async function throws after the lookup: its promise is rejected
provideOutlineForRange ==
    /\ pc = "outline"
    /\ \E ret \in {<<>>},
          symbolsInRange \in {getDocumentSymbolsInRange({docSymbol}, symbolRange)} :
          outline' = [state |-> "rejected", reason |-> NOT_IMPLEMENTED,
                      value |-> <<>>, symbolsInRange |-> symbolsInRange]
    /\ pc' = "settled"
    /\ UNCHANGED <<textVars, callVars, stripped, rangeHead, rangeBody, scan,
                   route, attempts, symbolRange>>

\* the ranges the method is called with: from a symbol's start to the end
\* of a line at or after it
InitOutline ==
    /\ pc = "outline"
    /\ InitText
    /\ InitIdle
    /\ outline = NoOutline
    /\ luaparse \in BOOLEAN
    /\ \E t \in Trees, unit \in Units :
         \E d \in {RenderDoc(t.stmts, unit)} :
         \E i \in 1..Len(d.syms), j \in 1..Len(d.syms),
            ln \in 0..(Len(d.doc.lines) - 1) :
            /\ document = Parsed(d, t.parses)
            /\ docSymbol = SymbolOf(d.doc, d.syms[i])
            /\ truth = [sym |-> d.syms[i], alt |-> d.doc, altKind |-> "none"]
            /\ symbolRange = Range(positionAt(d.doc, d.syms[j].rangeS),
                                   <<ln, Len(d.doc.lines[ln + 1])>>)

SpecOutline == InitOutline /\ [][provideOutlineForRange]_vars

(***************************************************************************)
(* Properties of getLanguageSpecificSymbolInformation.  truth.sym is what  *)
(* the document generator knows about the construct of the symbol: where   *)
(* its own terminator is (closeAt), where its first line ends (firstEnd).  *)
(***************************************************************************)
\* the position of the terminator that closes the symbol's construct
OwnTerminator == positionAt(document, truth.sym.closeAt)

\* the token the scan picked last, as a position in the document
PickedAt == <<scan.ln, scan.searchFrom + scan.pick.index>>

(***************************************************************************)
(* C1: for a properly nested construct the body end computed by the        *)
(* heuristic scan is the terminator closing the symbol's own construct,    *)
(* never an inner one, and the depth counter is zero exactly when that     *)
(* terminator is reached (so the scan returns there).                      *)
(***************************************************************************)
C1_BodyEndIsOwnTerminator ==
    (pc \in {"scan", "done", "failed"} /\ truth.sym.closeAt >= 0) =>
        /\ scan.phase = "return" => scan.endPos = OwnTerminator
        /\ (scan.pick.type \in {"end", "until"} /\ PickedAt = OwnTerminator)
              => scan.phase = "return"

(***************************************************************************)
(* C2: for every resolved symbol, on either route, headRange.end equals    *)
(* bodyRange.start, except that when the rest of the head-end line is      *)
(* blank the body may start at column 0 of the next line.                  *)
(***************************************************************************)
C2_HeadEndIsBodyStart ==
    pc = "done" =>
        \/ rangeHead.end = rangeBody.start
        \/ /\ IsBlank(SubstringFrom(lineAt(document, rangeHead.end[1]),
                                    rangeHead.end[2]))
           /\ rangeBody.start = <<rangeHead.end[1] + 1, 0>>

(***************************************************************************)
(* C3: every call follows Start -> TryStructural -> (Done | TryHeuristic)  *)
(* -> (Done | Fail).  The heuristic scan runs only after the structural    *)
(* route failed (parser absent, parse exception, no node found); a         *)
(* structural success returns without it; a structural failure is followed *)
(* by exactly one heuristic attempt and is not surfaced; the call fails    *)
(* only when the heuristic attempt fails; nothing is retried.              *)
(***************************************************************************)
StructuralFailed ==
    \/ ~luaparse
    \/ ~document.parses
    \/ foundNode = NoNode

C3_ChainInvariant ==
    /\ attempts.structural <= 1
    /\ attempts.heuristic <= 1
    /\ attempts.heuristic = 1 <=> pc \in {"scan", "failed"} \/ route = "heuristic"
    /\ attempts.structural = 1 <=> (luaparse /\ pc # "start")
    /\ pc \in {"heuristic", "scan", "failed"} => StructuralFailed
    /\ attempts.heuristic = 1 => StructuralFailed
    /\ (pc = "done" /\ route = "structural") =>
          attempts = [structural |-> 1, heuristic |-> 0] /\ ~StructuralFailed
    /\ (pc = "done" /\ route = "heuristic") => attempts.heuristic = 1
    /\ pc = "done" => route \in {"structural", "heuristic"}
    /\ pc = "failed" =>
          /\ attempts.heuristic = 1
          /\ scan.phase = "null"
          /\ route = "none"

\* the edges of the chain, and what each edge does to the attempt counters
C3_ChainEdges ==
    {<<"start", "structural">>, <<"start", "heuristic">>,
     <<"structural", "done">>, <<"structural", "heuristic">>,
     <<"heuristic", "scan">>, <<"scan", "done">>, <<"scan", "failed">>}

C3_ChainStep ==
    /\ pc' # pc => <<pc, pc'>> \in C3_ChainEdges
    /\ pc \in {"done", "failed"} => UNCHANGED vars
    /\ (pc = "start" /\ pc' = "heuristic") => ~luaparse
    /\ (pc = "structural" /\ pc' = "heuristic") =>
          /\ ~document.parses \/ foundNode = NoNode
          /\ UNCHANGED <<rangeHead, rangeBody, route, attempts>>
    /\ (pc = "structural" /\ pc' = "done") =>
          /\ route' = "structural"
          /\ scan' = scan
          /\ attempts' = attempts
    /\ (pc = "heuristic" /\ pc' # pc) =>
          attempts'.heuristic = attempts.heuristic + 1
    /\ pc # "heuristic" => attempts'.heuristic = attempts.heuristic
    /\ pc' = "failed" => pc \in {"scan", "failed"}

C3_FallbackChain ==
    /\ [](C3_ChainInvariant)
    /\ [][C3_ChainStep]_vars

\* a structural failure recovered by a successful heuristic attempt
C3_Witness ==
    /\ pc = "done"
    /\ route = "heuristic"
    /\ luaparse
    /\ attempts = [structural |-> 1, heuristic |-> 1]

(***************************************************************************)
(* C4: for a well-formed function definition `function f(a,b) ... end`     *)
(* whose symbol names the function, on whichever route resolves it,        *)
(* headRange spans from the first character of the name through the        *)
(* closing parameter parenthesis inclusive, and bodyRange spans from just  *)
(* after that parenthesis through the matching `end`.                      *)
(***************************************************************************)
WellFormedFunction ==
    /\ truth.sym.kind = "function"
    /\ truth.sym.named
    /\ truth.sym.closeAt >= 0
    /\ At(document.text, truth.sym.firstEnd - 1) = ")"

C4_FunctionHeadAndBody ==
    (pc = "done" /\ WellFormedFunction) =>
        /\ rangeHead = Range(positionAt(document, truth.sym.nameS),
                             positionAt(document, truth.sym.firstEnd))
        /\ rangeBody = Range(positionAt(document, truth.sym.firstEnd),
                             positionAt(document, truth.sym.closeAt + Len("end")))

\* what this call returned, or that it failed
Outcome ==
    [ok |-> pc = "done", rangeHead |-> rangeHead, rangeBody |-> rangeBody]

(***************************************************************************)
(* C5: two documents that differ only in the characters inside string      *)
(* literals (quoted or long-bracket) resolve alike on the heuristic route: *)
(* same success or failure, same head and body ranges.                     *)
(***************************************************************************)
C5_StringContentIgnored ==
    (truth.altKind = "string" /\ pc \in {"done", "failed"} /\ route # "structural")
        => HeuristicResolve(truth.alt, docSymbol) = Outcome

(***************************************************************************)
(* C6: two documents that differ only in the characters inside comments    *)
(* (single-line or block) resolve alike on the heuristic route: same       *)
(* success or failure, same head and body ranges.                          *)
(***************************************************************************)
C6_CommentContentIgnored ==
    (truth.altKind = "comment" /\ pc \in {"done", "failed"} /\ route # "structural")
        => HeuristicResolve(truth.alt, docSymbol) = Outcome

(***************************************************************************)
(* C7: in the body-end scan `else` and `elseif` never increment the depth  *)
(* (a step that increments it picked a whole-word opener, and an `if` only *)
(* when no `else` directly precedes it), and a document of the form        *)
(* `if a then ... elseif b then ... else ... end` resolves with the final  *)
(* `end` as the one terminator accepted at depth zero.                     *)
(***************************************************************************)
IfElseifElseDocument ==
    /\ Len(document.tree) >= 1
    /\ document.tree[1].type = "IfStatement"
    /\ Len(document.tree[1].clauses) = 3
    /\ truth.sym.rangeS = 0

C7_IfElseResolves ==
    (IfElseifElseDocument /\ pc \in {"scan", "done", "failed"}) =>
        /\ pc # "failed"
        /\ scan.phase = "return" =>
              /\ scan.endPos = OwnTerminator
              /\ scan.pick.type = "end"
              /\ scan.depth = 0

C7_DepthStep ==
    (pc = "scan" /\ scan'.depth = scan.depth + 1) =>
        /\ scan'.pick.type \in Openers \cup {"if"}
        /\ WordAt(scan.sub, scan'.pick.type, scan'.pick.index)
        /\ scan'.pick.type = "if" =>
              ~EndsWithElse(Substring(scan.sub, 0, scan'.pick.index))

C7_ElseNeverOpens == [](C7_IfElseResolves) /\ [][C7_DepthStep]_vars

\* the if / elseif / else document resolved by the scan at its final `end`
C7_Witness ==
    /\ IfElseifElseDocument
    /\ pc = "done"
    /\ route = "heuristic"
    /\ scan.endPos = OwnTerminator

(***************************************************************************)
(* C8: the call fails, returning no range at all, exactly when the scan    *)
(* reaches the end of the document without an `end`/`until` at depth zero  *)
(* on a line indented exactly like the head line; an unterminated function *)
(* fails; a terminator is accepted only at depth zero with that indent.    *)
(***************************************************************************)
C8_FailsOnlyWithoutTerminator ==
    /\ pc = "failed" <=> scan.phase = "null"
    /\ pc = "failed" =>
          /\ rangeHead = NoRange
          /\ rangeBody = NoRange
          /\ scan.ln >= lineCount(document)
          /\ scan.endPos = NoPos
    /\ (pc = "done" /\ route = "heuristic") => scan.phase = "return"
    /\ scan.phase = "return" =>
          /\ scan.pick.type \in {"end", "until"}
          /\ scan.endPos = PickedAt
          /\ scan.depth = 0
          /\ Indent(lineAt(document, scan.endPos[1]))
                = Indent(lineAt(document, rangeHead.start[1]))
    /\ (truth.sym.closeAt < 0 /\ pc \in {"scan", "done", "failed"}) =>
          /\ pc # "done"
          /\ scan.phase # "return"

\* the unterminated function: the scan ran out of lines and the call failed
C8_Witness ==
    /\ pc = "failed"
    /\ truth.sym.closeAt < 0
    /\ truth.sym.kind = "function"
    /\ scan.ln >= lineCount(document)

(***************************************************************************)
(* Reference lexing used by the properties below: offsets are classified   *)
(* one character at a time by an automaton over the modes                  *)
(* code / quoted string / long bracket / line comment / block comment.     *)
(***************************************************************************)
LongClose(s, i) == "]" \o Repeat("=", LongOpenLen(s, i) - 2) \o "]"

RECURSIVE RefCodeOffsets(_, _, _, _)
\* offsets >= i outside quoted strings and long-bracket literals
\* (mode "code", "quoted" with opening quote q, "long" with closing token q)
RefCodeOffsets(s, i, mode, q) ==
    IF i >= Len(s) THEN {}
    ELSE IF mode = "code" THEN
        IF At(s, i) \in {"\"", "'"}
        THEN RefCodeOffsets(s, i + 1, "quoted", At(s, i))
        ELSE IF LongOpenLen(s, i) > 0
        THEN RefCodeOffsets(s, i + LongOpenLen(s, i), "long", LongClose(s, i))
        ELSE {i} \cup RefCodeOffsets(s, i + 1, "code", "")
    ELSE IF mode = "quoted" THEN
        IF At(s, i) = "\\" THEN RefCodeOffsets(s, i + 2, "quoted", q)
        ELSE IF At(s, i) = q THEN RefCodeOffsets(s, i + 1, "code", "")
        ELSE RefCodeOffsets(s, i + 1, "quoted", q)
    ELSE IF OccursAt(s, q, i) THEN RefCodeOffsets(s, i + Len(q), "code", "")
         ELSE RefCodeOffsets(s, i + 1, "long", q)

\* nesting depth after the character at offset j, counted from `open`
RefParenDepth(s, open, j) ==
    LET code == RefCodeOffsets(s, open, "code", "")
    IN  Cardinality({k \in code : k <= j /\ At(s, k) = "("})
          - Cardinality({k \in code : k <= j /\ At(s, k) = ")"})

RefMatchingParen(s, open) ==
    LET code == RefCodeOffsets(s, open, "code", "")
        zero == {j \in code : At(s, j) = ")" /\ RefParenDepth(s, open, j) = 0}
    IN  IF zero = {} THEN -1 ELSE Min(zero)

\* does a closing quote for the quote at offset i exist on the same line
RECURSIVE QuoteCloses(_, _, _)
QuoteCloses(s, j, q) ==
    IF j >= Len(s) \/ At(s, j) = "\n" THEN FALSE
    ELSE IF At(s, j) = "\\" THEN QuoteCloses(s, j + 2, q)
    ELSE IF At(s, j) = q THEN TRUE
    ELSE QuoteCloses(s, j + 1, q)

RECURSIVE RefStrip(_, _, _, _)
\* the text with exactly the comment characters blanked; closed string
\* literals (quoted, on one line, and long brackets) are opaque
RefStrip(s, i, mode, q) ==
    IF i >= Len(s) THEN ""
    ELSE IF mode = "code" THEN
        IF OccursAt(s, "--", i) THEN
            IF LongOpenLen(s, i + 2) > 0
            THEN Repeat(" ", 2 + LongOpenLen(s, i + 2))
                   \o RefStrip(s, i + 2 + LongOpenLen(s, i + 2), "block",
                               LongClose(s, i + 2))
            ELSE "  " \o RefStrip(s, i + 2, "line", "")
        ELSE IF At(s, i) \in {"\"", "'"} /\ QuoteCloses(s, i + 1, At(s, i))
        THEN At(s, i) \o RefStrip(s, i + 1, "quoted", At(s, i))
        ELSE IF /\ LongOpenLen(s, i) > 0
                /\ IndexOf(s, LongClose(s, i), i + LongOpenLen(s, i)) >= 0
        THEN Substring(s, i, i + LongOpenLen(s, i))
               \o RefStrip(s, i + LongOpenLen(s, i), "long", LongClose(s, i))
        ELSE At(s, i) \o RefStrip(s, i + 1, "code", "")
    ELSE IF mode = "line" THEN
        IF At(s, i) = "\n" THEN "\n" \o RefStrip(s, i + 1, "code", "")
        ELSE " " \o RefStrip(s, i + 1, "line", "")
    ELSE IF mode = "block" THEN
        IF OccursAt(s, q, i)
        THEN Repeat(" ", Len(q)) \o RefStrip(s, i + Len(q), "code", "")
        ELSE " " \o RefStrip(s, i + 1, "block", q)
    ELSE IF mode = "quoted" THEN
        IF At(s, i) = "\\"
        THEN Substring(s, i, i + 2) \o RefStrip(s, i + 2, "quoted", q)
        ELSE IF At(s, i) = q
        THEN q \o RefStrip(s, i + 1, "code", "")
        ELSE At(s, i) \o RefStrip(s, i + 1, "quoted", q)
    ELSE IF OccursAt(s, q, i)
         THEN q \o RefStrip(s, i + Len(q), "code", "")
         ELSE At(s, i) \o RefStrip(s, i + 1, "long", q)

(***************************************************************************)
(* C9: stripLuaComments(text) has the length of text, every comment        *)
(* character (line comment, or block comment closed by the same '=' level  *)
(* or running to end of file) is a blank, and every other character,       *)
(* including a "--" inside a string literal, is unchanged at its offset.   *)
(***************************************************************************)
C9_StripBlanksExactlyComments ==
    pc = "stripped" =>
        /\ Len(stripped) = Len(src)
        /\ stripped = RefStrip(src, 0, "code", "")

(***************************************************************************)
(* C10: findMatchingParen(src, openIdx) at a "(" returns the offset of the *)
(* ")" where the nesting depth first returns to zero, with quoted strings  *)
(* (escapes honoured) and long-bracket literals (same '=' width) skipped   *)
(* as units, and -1 when the text ends before the depth returns to zero.   *)
(***************************************************************************)
C10_FindMatchingParen ==
    pc = "matched" => matchIdx = RefMatchingParen(src, openIdx)

\* a call that returned a ")" after skipping a ")" inside a literal
C10_Witness ==
    /\ pc = "matched"
    /\ matchIdx > openIdx
    /\ \E k \in (openIdx + 1)..(matchIdx - 1) :
          /\ At(src, k) = ")"
          /\ k \notin RefCodeOffsets(src, openIdx, "code", "")


(***************************************************************************)
(* C11: for an assignment-to-function `name = function(...) ... end` with  *)
(* the symbol on the left-hand target, the head runs from the target's     *)
(* start through the closing parenthesis of the parameter list inclusive,  *)
(* and the body runs from there to the end of the function.                *)
(***************************************************************************)
AssignedFunction ==
    /\ truth.sym.kind = "function"
    /\ ~truth.sym.named
    /\ truth.sym.rangeS < truth.sym.nodeS
    /\ truth.sym.nameS = truth.sym.rangeS
    /\ truth.sym.closeAt >= 0
    /\ At(document.text, truth.sym.firstEnd - 1) = ")"

C11_AssignedFunctionHeadAndBody ==
    (pc = "done" /\ AssignedFunction) =>
        /\ rangeHead = Range(positionAt(document, truth.sym.rangeS),
                             positionAt(document, truth.sym.firstEnd))
        /\ rangeBody = Range(positionAt(document, truth.sym.firstEnd),
                             positionAt(document, truth.sym.closeAt + Len("end")))

(***************************************************************************)
(* C12: for a conditional statement with the symbol on its `if` clause, on *)
(* whichever route resolves it, the head ends at the end of the `then` of  *)
(* that clause on the first line and the body ends at the end of the       *)
(* statement's closing `end`.                                              *)
(***************************************************************************)
IfClauseSymbol ==
    /\ truth.sym.kind = "if"
    /\ truth.sym.closeAt >= 0
    /\ truth.sym.nameS = truth.sym.nodeS

C12_IfHeadAndBodyEnd ==
    (pc = "done" /\ IfClauseSymbol) =>
        /\ rangeHead.end = positionAt(document, truth.sym.firstEnd)
        /\ rangeBody.end = positionAt(document, truth.sym.closeAt + Len("end"))

(***************************************************************************)
(* C14: with the parser available and the document parsing, the call       *)
(* resolves the symbol from the innermost node whose span contains the     *)
(* name-start offset and whose kind is function, numeric-for, generic-for, *)
(* while, conditional or repeat: an outer construct never shadows an inner *)
(* one, and a while-loop is resolved as that while-loop.                   *)
(***************************************************************************)
EnclosureTypes == VisitTypes \cup {"WhileStatement"}

Enclosing(tree, off) ==
    {i \in 1..Len(tree) : /\ tree[i].s <= off
                          /\ off <= tree[i].e
                          /\ tree[i].type \in EnclosureTypes}

\* no other enclosing node lies inside node i
IsInnermost(tree, off, i) ==
    /\ i \in Enclosing(tree, off)
    /\ \A j \in Enclosing(tree, off) :
          (tree[i].s <= tree[j].s /\ tree[j].e <= tree[i].e)
              => (tree[j].s = tree[i].s /\ tree[j].e = tree[i].e)

C14_InnermostEnclosure ==
    (pc = "done" /\ luaparse /\ document.parses) =>
        \A i \in 1..Len(document.tree) :
            IsInnermost(document.tree, selOffset, i) =>
                /\ route = "structural"
                /\ [rangeHead |-> rangeHead, rangeBody |-> rangeBody]
                      = StructuralRanges(document, document.tree[i], selOffset)

(***************************************************************************)
(* C15: during the body-end scan the tokens of a line are processed once   *)
(* each from left to right: every iteration of the token loop takes the    *)
(* first keyword right of the token taken before it (the loop ends when    *)
(* there is none); an opener `function`, `do`, `repeat`, `for`, `while`    *)
(* increments the depth by one and an `end`/`until` met at depth > 0       *)
(* decrements it by one.                                                   *)
(***************************************************************************)
\* no iteration of the token loop has run on the current line
LineFresh(st) == \A k \in Keywords : st.lastIndex[k] = 0

\* the offset in sub up to which the tokens have been processed
Consumed(st) ==
    IF LineFresh(st) THEN 0 ELSE st.pick.index + Len(st.pick.type)

\* the first keyword of sub at or after offset from
NextToken(sub, from) == Pick([k \in Keywords |-> Exec(k, sub, from)])

C15_TokenOnce ==
    (pc = "scan" /\ scan.phase = "token") =>
        \E t \in {NextToken(scan.sub, Consumed(scan))} :
            /\ scan'.pick = t
            /\ t.type \in Openers => scan'.depth = scan.depth + 1
            /\ (t.type \in {"end", "until"} /\ scan.depth > 0)
                  => scan'.depth = scan.depth - 1
            /\ t = NoPick => scan'.depth = scan.depth

C15_TokensOnceLeftToRight == [][C15_TokenOnce]_vars

(***************************************************************************)
(* C16: on every heuristic-route success the body range ends immediately   *)
(* after the accepted terminator token, so that it holds the whole token,  *)
(* for `end` and for `until` alike.                                        *)
(***************************************************************************)
C16_BodyEndsAfterTerminator ==
    (pc = "done" /\ route = "heuristic") =>
        /\ scan.pick.type \in {"end", "until"}
        /\ WordAt(lineAt(document, scan.endPos[1]), scan.pick.type, scan.endPos[2])
        /\ rangeBody.end = <<scan.endPos[1], scan.endPos[2] + Len(scan.pick.type)>>

(***************************************************************************)
(* C13: provideOutlineForRange never completes with a result: every call   *)
(* ends in a promise rejected with the 'not implemented' error, and no     *)
(* outline list, empty or not, is ever returned.                           *)
(***************************************************************************)
C13_OutlineAlwaysRejected ==
    /\ outline.state \in {"none", "rejected"}
    /\ pc = "outline" => outline = NoOutline
    /\ pc = "settled" =>
          /\ outline.state = "rejected"
          /\ outline.reason = NOT_IMPLEMENTED
          /\ outline.value = <<>>

\* a call whose range holds a symbol of the document is rejected all the same
C13_Witness ==
    /\ pc = "settled"
    /\ outline.state = "rejected"
    /\ outline.symbolsInRange # {}

(***************************************************************************)
(* C17: the body-end scan terminates: every iteration of the line loop and *)
(* of the token loop changes the loop's state, the token loop of a line is *)
(* left after finitely many iterations, and the scan ends with a           *)
(* terminator position or at the end of the document.                      *)
(***************************************************************************)
C17_ScanProgress ==
    /\ pc = "scan" => scan.phase \in {"line", "token", "return"}
    /\ (pc = "scan" /\ scan.phase # "return") => ScanStep(document, scan) # scan
    /\ (pc = "done" /\ route = "heuristic") => scan.endPos # NoPos
    /\ pc = "failed" => scan.ln >= lineCount(document) /\ scan.endPos = NoPos

C17_ScanTerminates ==
    /\ [](C17_ScanProgress)
    /\ (pc = "scan" /\ scan.phase = "token")
          ~> (pc # "scan" \/ scan.phase # "token")
    /\ (pc = "scan") ~> (pc \in {"done", "failed"})

\* the scan of a terminated construct that ran its token loops and left the
\* last of them by break, ending at the end of the document
C17_Witness ==
    /\ pc = "failed"
    /\ scan.ln = lineCount(document)
    /\ truth.sym.closeAt >= 0
    /\ scan.sub # ""
    /\ scan.pick = NoPick
====
